---- MODULE Spec2Model ----
(***************************************************************************)
(* Room registry and room sessions of src/server.js: the socket.io         *)
(* handlers createRoom, joinRoom, videoAction, changeEpisode, chatMessage, *)
(* getRoomInfo and disconnect, over the in-memory Map `rooms`.             *)
(*                                                                         *)
(* Node runs every handler to completion on one event loop, so each        *)
(* handler is one atomic action.                                           *)
(***************************************************************************)
EXTENDS Integers, Sequences, FiniteSets, TLC

(***************************************************************************)
(* Program constants.                                                      *)
(***************************************************************************)
MaxMembers == 10
ChatLimit == 100
SnapshotSize == 50
CodeBase == 10000

(***************************************************************************)
(* Bounds of the model.                                                    *)
(***************************************************************************)
MaxClients == 2   \* clients of the specification with every handler
MaxCrowd == 3     \* clients of the membership specification
NumCodes == 2     \* codes generateRoomCode draws from
MaxChats == 1     \* chat messages handled in one run
MaxBurst == 2     \* chat messages handled on top of a long chat history
MaxClock == 1     \* the latest time Date.now() returns

None == "undefined"
Null == "null"

\* Socket ids: one more than a room holds.
Conns == 1..(MaxMembers + 1)
Clients == 1..MaxClients
Crowd == 1..MaxCrowd
\* Math.floor(10000 + Math.random() * 90000).toString(), for the first
\* NumCodes values of the range.
Codes == {ToString(n) : n \in CodeBase..(CodeBase + NumCodes - 1)}
FirstCode == ToString(CodeBase)
\* Every client keeps one nickname.
Nicknames == <<"Alice", "Bob", "Carol">>
Nickname(c) == Nicknames[((c - 1) % Len(Nicknames)) + 1]
\* Date.now(): rooms are made at time 0, commands and messages come later.
StartTimes == {0}
Times == 1..MaxClock
Messages == {"hi"}
Episodes == {"ep1"}
AnimeIds == {"anime1"}
Actions == {[isPlaying |-> TRUE, currentTime |-> 42], [isPlaying |-> TRUE]}

VARIABLES
  status,    \* per socket id: "new" (id not handed out yet), "open", "closed"
  roomCode,  \* socket.roomCode of every socket
  topics,    \* the socket.io rooms (topics) every socket has joined
  rooms,     \* the Map rooms: room code -> room object
  nextId,    \* the next value of uuidv4()
  accepted,  \* history: per code, the chat messages pushed since the room was created
  out,       \* the events emitted by the handler that ran last, in order
  last       \* the inbound event handled last

vars == <<status, roomCode, topics, rooms, nextId, accepted, out, last>>

(***************************************************************************)
(* A JavaScript Map with insertion order, as a sequence of entries         *)
(* [id, nickname, isHost] with distinct ids.                               *)
(***************************************************************************)
MapKeys(m) == {m[i].id : i \in 1..Len(m)}

MapHas(m, k) == k \in MapKeys(m)

MapIndex(m, k) == CHOOSE i \in 1..Len(m) : m[i].id = k

MapValue(e) == [nickname |-> e.nickname, isHost |-> e.isHost]

\* Map.prototype.get: undefined when the key is absent.
MapGet(m, k) == IF MapHas(m, k) THEN MapValue(m[MapIndex(m, k)]) ELSE None

\* Mutant of MapSet: a key that is not in the map is not added.
MapSetExistingOnly(m, k, v) ==
  LET e == [id |-> k, nickname |-> v.nickname, isHost |-> v.isHost]
  IN IF MapHas(m, k) THEN [m EXCEPT ![MapIndex(m, k)] = e] ELSE m

\* Map.prototype.set: an existing key keeps its position and takes the new value.
MapSet(m, k, v) ==
  LET e == [id |-> k, nickname |-> v.nickname, isHost |-> v.isHost]
  IN IF MapHas(m, k) THEN [m EXCEPT ![MapIndex(m, k)] = e] ELSE Append(m, e)

\* Map.prototype.delete
MapDelete(m, k) == SelectSeq(m, LAMBDA e : e.id # k)

\* m.keys().next().value
MapFirstKey(m) == m[1].id

\* Array.from(m.values())
MapValues(m) == [i \in 1..Len(m) |-> MapValue(m[i])]

\* Array.prototype.slice(start) for a negative start: the last -start elements.
SliceLast(s, n) ==
  LET from == IF Len(s) - n < 0 THEN 0 ELSE Len(s) - n
  IN SubSeq(s, from + 1, Len(s))

(***************************************************************************)
(* The transport: who receives an emit.                                    *)
(***************************************************************************)
Subscribers(tp, code) == {s \in Conns : code \in tp[s]}

\* Mutant of ToSocket: the event goes to every socket.
ToSocketToAll(c, name, payload) == [name |-> name, to |-> Conns, payload |-> payload]

\* socket.emit(name, payload)
ToSocket(c, name, payload) == [name |-> name, to |-> {c}, payload |-> payload]

\* Mutant of ToRoom: the subscriber with the lowest id is left out.
ToRoomSkipsOne(tp, code, name, payload) ==
  [name |-> name,
   to |-> {s \in Subscribers(tp, code) : \E t \in Subscribers(tp, code) : t < s},
   payload |-> payload]

\* io.to(code).emit(name, payload)
ToRoom(tp, code, name, payload) ==
  [name |-> name, to |-> Subscribers(tp, code), payload |-> payload]

\* Mutant of ToOthers: the event goes to the whole topic, the sender included.
ToOthersEchoes(tp, c, code, name, payload) ==
  [name |-> name, to |-> Subscribers(tp, code), payload |-> payload]

\* socket.to(code).emit(name, payload)
ToOthers(tp, c, code, name, payload) ==
  [name |-> name, to |-> Subscribers(tp, code) \ {c}, payload |-> payload]

\* rooms.set(code, room)
RoomsSet(rs, code, room) ==
  [k \in DOMAIN rs \cup {code} |-> IF k = code THEN room ELSE rs[k]]

\* Mutant of RoomsDelete: the emptied room is left in the registry.
RoomsDeleteKeepsEmptied(rs, code) == [rs EXCEPT ![code].members = <<>>]

\* rooms.delete(code)
RoomsDelete(rs, code) == [k \in DOMAIN rs \ {code} |-> rs[k]]

Event(op, c, arg) == [op |-> op, conn |-> c, arg |-> arg]

\* No event is being handled: the event loop is between two handlers.
Idle == Event("idle", 0, None)

(***************************************************************************)
(* Initial state: no socket, no room.                                      *)
(***************************************************************************)
Fresh ==
  /\ status = [c \in Conns |-> "new"]
  /\ roomCode = [c \in Conns |-> None]
  /\ topics = [c \in Conns |-> {}]
  /\ rooms = <<>>
  /\ nextId = 1
  /\ accepted = [k \in Codes |-> <<>>]
  /\ out = <<>>
  /\ last = Idle

Init == Fresh

(***************************************************************************)
(* Handlers.                                                               *)
(***************************************************************************)
\* io.on('connection')
Connect(c) ==
  /\ last = Idle
  /\ status[c] = "new"
  /\ status' = [status EXCEPT ![c] = "open"]
  /\ out' = <<>>
  /\ last' = Event("connection", c, None)
  /\ UNCHANGED <<roomCode, topics, rooms, nextId, accepted>>

NewRoom(c, code, nickname, now) ==
  [code |-> code,
   host |-> c,
   hostNickname |-> nickname,
   members |-> <<[id |-> c, nickname |-> nickname, isHost |-> TRUE]>>,
   currentEpisode |-> Null,
   animeId |-> Null,
   videoState |-> [isPlaying |-> FALSE, currentTime |-> 0, lastUpdate |-> now],
   chat |-> <<>>]

\* generateRoomCode draws the code at random; createRoom stores the room
\* under it without looking the code up first.
CreateRoom(c, nickname, code, now) ==
  /\ last = Idle
  /\ status[c] = "open"
  /\ LET room == NewRoom(c, code, nickname, now)
     IN /\ rooms' = RoomsSet(rooms, code, room)
        /\ topics' = [topics EXCEPT ![c] = @ \cup {code}]
        /\ roomCode' = [roomCode EXCEPT ![c] = code]
        /\ accepted' = [accepted EXCEPT ![code] = <<>>]
        /\ out' = <<ToSocket(c, "roomCreated",
                     [roomCode |-> code, isHost |-> TRUE,
                      members |-> MapValues(room.members)])>>
  /\ last' = Event("createRoom", c, [nickname |-> nickname, roomCode |-> code])
  /\ UNCHANGED <<status, nextId>>

\* The handler has returned and the transport has sent what it emitted; the
\* next event is taken only then (handlers run to completion, one at a time).
Deliver ==
  /\ last # Idle
  /\ last' = Idle
  /\ out' = <<>>
  /\ UNCHANGED <<status, roomCode, topics, rooms, nextId, accepted>>

\* Mutant of RoomIsFull: the bound is checked one member late.
RoomIsFullOffByOne(room) == Len(room.members) > MaxMembers

\* room.members.size >= 10
RoomIsFull(room) == Len(room.members) >= MaxMembers

\* Mutant of ChatSnapshot: the first 50 messages instead of the last 50.
ChatSnapshotOldest(chat) ==
  SubSeq(chat, 1, IF Len(chat) < SnapshotSize THEN Len(chat) ELSE SnapshotSize)

\* room.chat.slice(-50)
ChatSnapshot(chat) == SliceLast(chat, SnapshotSize)

JoinRoom(c, code, nickname) ==
  /\ last = Idle
  /\ status[c] = "open"
  /\ last' = Event("joinRoom", c, [nickname |-> nickname, roomCode |-> code])
  /\ IF code \notin DOMAIN rooms
     THEN /\ out' = <<ToSocket(c, "error", [message |-> "Room not found"])>>
          /\ UNCHANGED <<rooms, topics, roomCode>>
     ELSE IF RoomIsFull(rooms[code])
     THEN /\ out' = <<ToSocket(c, "error", [message |-> "Room is full"])>>
          /\ UNCHANGED <<rooms, topics, roomCode>>
     ELSE LET room == [rooms[code] EXCEPT
                         !.members = MapSet(@, c, [nickname |-> nickname, isHost |-> FALSE])]
              tp == [topics EXCEPT ![c] = @ \cup {code}]
          IN /\ rooms' = RoomsSet(rooms, code, room)
             /\ topics' = tp
             /\ roomCode' = [roomCode EXCEPT ![c] = code]
             /\ out' = <<ToRoom(tp, code, "userJoined",
                           [nickname |-> nickname, members |-> MapValues(room.members)]),
                         ToSocket(c, "roomJoined",
                           [roomCode |-> code,
                            isHost |-> FALSE,
                            currentEpisode |-> room.currentEpisode,
                            animeId |-> room.animeId,
                            videoState |-> room.videoState,
                            members |-> MapValues(room.members),
                            chat |-> ChatSnapshot(room.chat)])>>
  /\ UNCHANGED <<status, nextId, accepted>>

\* Mutant of NotHostOfBoundRoom: any member of the room passes the gate.
NotHostMembersPass(c) ==
  \/ roomCode[c] \notin DOMAIN rooms
  \/ c \notin MapKeys(rooms[roomCode[c]].members)

\* !room || room.host !== socket.id
NotHostOfBoundRoom(c) ==
  \/ roomCode[c] \notin DOMAIN rooms
  \/ rooms[roomCode[c]].host # c

\* { ...action, lastUpdate: Date.now() }
StampedAction(action, now) == [lastUpdate |-> now] @@ action

VideoAction(c, action, now) ==
  /\ last = Idle
  /\ status[c] = "open"
  /\ last' = Event("videoAction", c, [action |-> action, now |-> now])
  /\ IF NotHostOfBoundRoom(c)
     THEN /\ out' = <<>>
          /\ UNCHANGED rooms
     ELSE LET code == roomCode[c]
          IN /\ rooms' = [rooms EXCEPT ![code].videoState = StampedAction(action, now)]
             /\ out' = <<ToOthers(topics, c, code, "videoAction", action)>>
  /\ UNCHANGED <<status, roomCode, topics, nextId, accepted>>

ChangeEpisode(c, episodeId, animeId) ==
  /\ last = Idle
  /\ status[c] = "open"
  /\ last' = Event("changeEpisode", c, [episodeId |-> episodeId, animeId |-> animeId])
  /\ IF NotHostOfBoundRoom(c)
     THEN /\ out' = <<>>
          /\ UNCHANGED rooms
     ELSE LET code == roomCode[c]
          IN /\ rooms' = [rooms EXCEPT ![code].currentEpisode = episodeId,
                                       ![code].animeId = animeId]
             /\ out' = <<ToRoom(topics, code, "changeEpisode",
                           [episodeId |-> episodeId, animeId |-> animeId])>>
  /\ UNCHANGED <<status, roomCode, topics, nextId, accepted>>

\* Mutant of NotMemberOfBoundRoom: only the host passes the gate.
NotMemberHostsOnly(c) ==
  \/ roomCode[c] \notin DOMAIN rooms
  \/ rooms[roomCode[c]].host # c

\* !room || !room.members.has(socket.id)
NotMemberOfBoundRoom(c) ==
  \/ roomCode[c] \notin DOMAIN rooms
  \/ ~MapHas(rooms[roomCode[c]].members, c)

\* Mutant of PushChat: the truncation keeps the first 100 messages.
PushChatDropsNewest(chat, chatMessage) ==
  LET pushed == Append(chat, chatMessage)
  IN IF Len(pushed) > ChatLimit THEN SubSeq(pushed, 1, ChatLimit) ELSE pushed

\* room.chat.push(chatMessage), then keep only the last 100 messages
PushChat(chat, chatMessage) ==
  LET pushed == Append(chat, chatMessage)
  IN IF Len(pushed) > ChatLimit THEN SliceLast(pushed, ChatLimit) ELSE pushed

ChatMessage(c, message, now) ==
  /\ last = Idle
  /\ status[c] = "open"
  /\ last' = Event("chatMessage", c, message)
  /\ IF NotMemberOfBoundRoom(c)
     THEN /\ out' = <<>>
          /\ UNCHANGED <<rooms, nextId, accepted>>
     ELSE LET code == roomCode[c]
              member == MapGet(rooms[code].members, c)
              chatMessage == [id |-> nextId,
                              nickname |-> member.nickname,
                              message |-> message,
                              timestamp |-> now,
                              isHost |-> member.isHost]
          IN /\ rooms' = [rooms EXCEPT ![code].chat = PushChat(@, chatMessage)]
             /\ nextId' = nextId + 1
             /\ accepted' = [accepted EXCEPT ![code] = Append(@, chatMessage)]
             /\ out' = <<ToRoom(topics, code, "chatMessage", chatMessage)>>
  /\ UNCHANGED <<status, roomCode, topics>>

GetRoomInfo(c, code) ==
  /\ last = Idle
  /\ status[c] = "open"
  /\ last' = Event("getRoomInfo", c, code)
  /\ out' = IF code \in DOMAIN rooms
            THEN <<ToSocket(c, "roomInfo",
                     [members |-> MapValues(rooms[code].members),
                      currentEpisode |-> rooms[code].currentEpisode,
                      animeId |-> rooms[code].animeId,
                      videoState |-> rooms[code].videoState])>>
            ELSE <<ToSocket(c, "error", [message |-> "Room not found"])>>
  /\ UNCHANGED <<status, roomCode, topics, rooms, nextId, accepted>>

\* Mutant of NewHost: the member that entered last.
NewHostLast(members) == members[Len(members)].id

\* The successor of a host that left: room.members.keys().next().value
NewHost(members) == MapFirstKey(members)

\* socket.io takes a closing socket out of its topics before it fires
\* 'disconnect', so nothing the handler emits reaches the socket itself.
\* The socket object, and socket.roomCode with it, is dropped after the handler.
Disconnect(c) ==
  /\ last = Idle
  /\ status[c] = "open"
  /\ status' = [status EXCEPT ![c] = "closed"]
  /\ topics' = [topics EXCEPT ![c] = {}]
  /\ last' = Event("disconnect", c, roomCode[c])
  /\ LET code == roomCode[c]
         tp == [topics EXCEPT ![c] = {}]
     IN IF code = None \/ code \notin DOMAIN rooms
        THEN /\ out' = <<>>
             /\ UNCHANGED <<rooms, accepted>>
        ELSE LET room == rooms[code]
                 member == MapGet(room.members, c)
                 remaining == MapDelete(room.members, c)
                 left == IF MapHas(room.members, c) THEN member.nickname ELSE None
             IN IF Len(remaining) = 0
                THEN /\ rooms' = RoomsDelete(rooms, code)
                     /\ accepted' = [accepted EXCEPT ![code] = <<>>]
                     /\ out' = <<>>
                ELSE IF room.host = c
                THEN LET newHost == NewHost(remaining)
                         newHostMember == MapGet(remaining, newHost)
                         promoted == MapSet(remaining, newHost,
                                       [nickname |-> newHostMember.nickname, isHost |-> TRUE])
                     IN /\ rooms' = [rooms EXCEPT ![code].members = promoted,
                                                  ![code].host = newHost]
                        /\ accepted' = accepted
                        /\ out' = <<ToRoom(tp, code, "newHost",
                                      [newHostId |-> newHost,
                                       newHostNickname |-> newHostMember.nickname,
                                       members |-> MapValues(promoted)]),
                                    ToRoom(tp, code, "userLeft",
                                      [nickname |-> left, members |-> MapValues(promoted)])>>
                ELSE /\ rooms' = [rooms EXCEPT ![code].members = remaining]
                     /\ accepted' = accepted
                     /\ out' = <<ToRoom(tp, code, "userLeft",
                                   [nickname |-> left, members |-> MapValues(remaining)])>>
  /\ roomCode' = [roomCode EXCEPT ![c] = None]
  /\ UNCHANGED nextId

(***************************************************************************)
(* Every handler, for MaxClients clients.                                  *)
(***************************************************************************)
Next ==
  \/ Deliver
  \/ \E c \in Clients : Connect(c)
  \/ \E c \in Clients, code \in Codes, now \in StartTimes :
        CreateRoom(c, Nickname(c), code, now)
  \/ \E c \in Clients, code \in Codes : JoinRoom(c, code, Nickname(c))
  \/ \E c \in Clients, a \in Actions, now \in Times : VideoAction(c, a, now)
  \/ \E c \in Clients, e \in Episodes, a \in AnimeIds : ChangeEpisode(c, e, a)
  \/ \E c \in Clients, m \in Messages, now \in Times :
        nextId <= MaxChats /\ ChatMessage(c, m, now)
  \/ \E c \in Clients, code \in Codes : GetRoomInfo(c, code)
  \/ \E c \in Clients : Disconnect(c)

Spec == Init /\ [][Next]_vars

(***************************************************************************)
(* Membership only, for MaxCrowd clients: the handlers that read or write  *)
(* rooms' members, hosts and the sockets' bindings. The other handlers     *)
(* touch none of these.                                                    *)
(***************************************************************************)
NextMembers ==
  \/ Deliver
  \/ \E c \in Crowd : Connect(c)
  \/ \E c \in Crowd, code \in Codes, now \in StartTimes :
        CreateRoom(c, Nickname(c), code, now)
  \/ \E c \in Crowd, code \in Codes : JoinRoom(c, code, Nickname(c))
  \/ \E c \in Crowd, code \in Codes : GetRoomInfo(c, code)
  \/ \E c \in Crowd : Disconnect(c)

SpecMembers == Init /\ [][NextMembers]_vars

(***************************************************************************)
(* A room one short of full: client 1 made the room FirstCode and clients  *)
(* 2..MaxMembers-1 joined it in turn. The last of them and two newcomers   *)
(* go on from there; the others stay in the room and send nothing.         *)
(***************************************************************************)
RECURSIVE JoinedUpTo(_)
JoinedUpTo(k) ==
  IF k = 1
  THEN NewRoom(1, FirstCode, Nickname(1), 0).members
  ELSE MapSet(JoinedUpTo(k - 1), k, [nickname |-> Nickname(k), isHost |-> FALSE])

NearlyFull == 1..(MaxMembers - 1)
FullClients == (MaxMembers - 1)..(MaxMembers + 1)

InitFull ==
  /\ status = [c \in Conns |-> IF c \in NearlyFull THEN "open" ELSE "new"]
  /\ roomCode = [c \in Conns |-> IF c \in NearlyFull THEN FirstCode ELSE None]
  /\ topics = [c \in Conns |-> IF c \in NearlyFull THEN {FirstCode} ELSE {}]
  /\ rooms = [k \in {FirstCode} |->
                [NewRoom(1, FirstCode, Nickname(1), 0) EXCEPT
                   !.members = JoinedUpTo(MaxMembers - 1)]]
  /\ nextId = 1
  /\ accepted = [k \in Codes |-> <<>>]
  /\ out = <<>>
  /\ last = Idle

NextFull ==
  \/ Deliver
  \/ \E c \in FullClients : Connect(c)
  \/ \E c \in FullClients, now \in StartTimes :
        CreateRoom(c, Nickname(c), FirstCode, now)
  \/ \E c \in FullClients : JoinRoom(c, FirstCode, Nickname(c))
  \/ \E c \in FullClients : GetRoomInfo(c, FirstCode)
  \/ \E c \in FullClients : Disconnect(c)

SpecFull == InitFull /\ [][NextFull]_vars

(***************************************************************************)
(* A long chat: client 1 made the room FirstCode and has posted k messages *)
(* in it, for k around the snapshot size and around the chat limit. The    *)
(* ids of these messages are the k ids uuidv4 gave out before nextId.      *)
(***************************************************************************)
HistoryLengths == {SnapshotSize - 1, SnapshotSize, ChatLimit - 1, ChatLimit}

OldMessage(i) ==
  [id |-> i, nickname |-> Nickname(1), message |-> "hi", timestamp |-> 0, isHost |-> TRUE]

\* k messages pushed one after another; with k <= ChatLimit none was dropped.
Posted(k) == [i \in 1..k |-> OldMessage(i - k)]

InitChat ==
  /\ status = [c \in Conns |-> IF c = 1 THEN "open" ELSE "new"]
  /\ roomCode = [c \in Conns |-> IF c = 1 THEN FirstCode ELSE None]
  /\ topics = [c \in Conns |-> IF c = 1 THEN {FirstCode} ELSE {}]
  /\ \E k \in HistoryLengths :
       /\ rooms = [r \in {FirstCode} |->
                     [NewRoom(1, FirstCode, Nickname(1), 0) EXCEPT !.chat = Posted(k)]]
       /\ accepted = [r \in Codes |->
                        IF r = FirstCode THEN Posted(k) ELSE <<>>]
  /\ nextId = 1
  /\ out = <<>>
  /\ last = Idle

NextChat ==
  \/ Deliver
  \/ \E c \in Clients : Connect(c)
  \/ \E c \in Clients, now \in StartTimes : CreateRoom(c, Nickname(c), FirstCode, now)
  \/ \E c \in Clients : JoinRoom(c, FirstCode, Nickname(c))
  \/ \E c \in Clients, a \in Actions, now \in Times : VideoAction(c, a, now)
  \/ \E c \in Clients, e \in Episodes, a \in AnimeIds : ChangeEpisode(c, e, a)
  \/ \E c \in Clients, m \in Messages, now \in Times :
        nextId <= MaxBurst /\ ChatMessage(c, m, now)
  \/ \E c \in Clients : GetRoomInfo(c, FirstCode)
  \/ \E c \in Clients : Disconnect(c)

SpecChat == InitChat /\ [][NextChat]_vars

(***************************************************************************)
(* Properties.                                                             *)
(***************************************************************************)
MemberIds(room) == {room.members[i].id : i \in 1..Len(room.members)}
HostFlagged(room) == {i \in 1..Len(room.members) : room.members[i].isHost}
RoomsOf(c) == {r \in DOMAIN rooms : c \in MemberIds(rooms[r])}
Emitted(name) == {i \in 1..Len(out) : out[i].name = name}
ErrorTo(c, message) == <<[name |-> "error", to |-> {c}, payload |-> [message |-> message]]>>

\* C1: in every reachable state, every room of the registry with at least one
\* member has exactly one member whose isHost flag is true, and the id of that
\* member is the room's host field.
C1_ExactlyOneHost ==
  \A r \in DOMAIN rooms :
    Len(rooms[r].members) >= 1 =>
      /\ Cardinality(HostFlagged(rooms[r])) = 1
      /\ \A i \in HostFlagged(rooms[r]) : rooms[r].members[i].id = rooms[r].host

\* The disconnect of c, the host of room r, in which another member remains.
C2_FailoverStep(c, r) ==
  /\ last'.op = "disconnect"
  /\ last'.conn = c
  /\ r \in DOMAIN rooms
  /\ rooms[r].host = c
  /\ MemberIds(rooms[r]) \ {c} # {}
  => /\ r \in DOMAIN rooms'
     /\ rooms'[r].host \in MemberIds(rooms[r]) \ {c}
     /\ \A i \in 1..Len(rooms'[r].members) :
          rooms'[r].members[i].isHost <=> rooms'[r].members[i].id = rooms'[r].host
     /\ \E i \in 1..Len(out'), j \in 1..Len(rooms'[r].members) :
          /\ out'[i].name = "newHost"
          /\ rooms'[r].members[j].id = rooms'[r].host
          /\ out'[i].payload.newHostId = rooms'[r].host
          /\ out'[i].payload.newHostNickname = rooms'[r].members[j].nickname

\* C2: when the connection that is a room's host disconnects and another member
\* remains, then right after the disconnect the room's host field is the id of
\* a remaining member, that member's isHost flag is true, no other remaining
\* member's is, and a newHost event was emitted with that id as newHostId and
\* that member's nickname as newHostNickname.
C2_HostFailover == [][\A c \in Conns, r \in Codes : C2_FailoverStep(c, r)]_vars

\* A joinRoom of c on room r, which has 10 members.
C3_RejectedStep(c, r) ==
  /\ last'.op = "joinRoom"
  /\ last'.conn = c
  /\ last'.arg.roomCode = r
  /\ r \in DOMAIN rooms
  /\ Len(rooms[r].members) = MaxMembers
  => /\ out' = ErrorTo(c, "Room is full")
     /\ rooms' = rooms
     /\ roomCode' = roomCode
     /\ topics' = topics

\* C3: no room ever has more than 10 members; a joinRoom on a room that has
\* 10 members sends the error 'Room is full' to the requester only and leaves
\* the registry, the bindings and the subscriptions as they were.
C3_Capacity ==
  /\ [](\A r \in DOMAIN rooms : Len(rooms[r].members) <= MaxMembers)
  /\ [][\A c \in Conns, r \in Codes : C3_RejectedStep(c, r)]_vars

\* A join was refused on a room that holds 10 members.
C3_Witness ==
  /\ last.op = "joinRoom"
  /\ out = ErrorTo(last.conn, "Room is full")
  /\ Len(rooms[last.arg.roomCode].members) = MaxMembers
  /\ last.conn \notin MemberIds(rooms[last.arg.roomCode])

\* The disconnect of c takes c, the only member, out of room r.
C4_LastMemberStep(c, r) ==
  /\ last'.op = "disconnect"
  /\ last'.conn = c
  /\ r \in DOMAIN rooms
  /\ MemberIds(rooms[r]) = {c}
  /\ (r \in DOMAIN rooms' => c \notin MemberIds(rooms'[r]))
  => r \notin DOMAIN rooms'

\* joinRoom and getRoomInfo on a code that is not in the registry.
C4_NotFound ==
  /\ last.op = "joinRoom" /\ last.arg.roomCode \notin DOMAIN rooms
     => out = ErrorTo(last.conn, "Room not found")
  /\ last.op = "getRoomInfo" /\ last.arg \notin DOMAIN rooms
     => out = ErrorTo(last.conn, "Room not found")

\* C4: no room of the registry has zero members; a disconnect that takes the
\* last member out of a room leaves the registry without that room; joinRoom
\* and getRoomInfo on a code that is not in the registry get 'Room not found'.
C4_NoEmptyRoom ==
  /\ [](\A r \in DOMAIN rooms : Len(rooms[r].members) >= 1)
  /\ [][\A c \in Conns, r \in Codes : C4_LastMemberStep(c, r)]_vars
  /\ []C4_NotFound

\* The only socket there ever was has made a room and disconnected: it was
\* the room's last member, and the room is gone.
C4_Witness ==
  /\ last.op = "disconnect"
  /\ last.arg # None
  /\ last.arg \notin DOMAIN rooms
  /\ \A c \in Conns \ {last.conn} : status[c] = "new"

\* C5: the code createRoom gives a new room is never the code of a room that
\* is in the registry at that moment, so createRoom replaces no room.
C5_FreshCode ==
  [][last'.op = "createRoom" => last'.arg.roomCode \notin DOMAIN rooms]_vars

\* A createRoom or joinRoom of c, which is a member of a room.
C6_RefusedStep(c) ==
  /\ last'.op \in {"createRoom", "joinRoom"}
  /\ last'.conn = c
  /\ RoomsOf(c) # {}
  => /\ out' = ErrorTo(c, "AlreadyInRoom")
     /\ rooms' = rooms

\* C6: every connection is a member of at most one room; a createRoom or a
\* joinRoom from a connection that is in a room already is refused with
\* AlreadyInRoom and changes no room.
C6_OneRoomPerConnection ==
  /\ [](\A c \in Conns : Cardinality(RoomsOf(c)) <= 1)
  /\ [][\A c \in Conns : C6_RefusedStep(c)]_vars

\* A videoAction of c, which is not the host of the room it is bound to.
C7_DroppedStep(c) ==
  /\ last'.op = "videoAction"
  /\ last'.conn = c
  /\ \/ roomCode[c] \notin DOMAIN rooms
     \/ rooms[roomCode[c]].host # c
  => /\ out' = <<>>
     /\ rooms' = rooms
     /\ roomCode' = roomCode
     /\ topics' = topics

\* C7: a videoAction from a connection that is not the host of the room it is
\* bound to (a non-host member, a connection bound to no room or to a code
\* that is in the registry no more) emits nothing and changes neither the
\* registry nor any binding or subscription.
C7_NonHostVideoAction == [][\A c \in Conns : C7_DroppedStep(c)]_vars

\* A member that is not the host has sent a videoAction.
C7_Witness ==
  /\ last.op = "videoAction"
  /\ roomCode[last.conn] \in DOMAIN rooms
  /\ last.conn \in MemberIds(rooms[roomCode[last.conn]])
  /\ rooms[roomCode[last.conn]].host # last.conn
  /\ Cardinality(DOMAIN rooms) = NumCodes

\* A videoAction of c, the host of the room it is bound to.
C8_HostStep(c) ==
  /\ last'.op = "videoAction"
  /\ last'.conn = c
  /\ roomCode[c] \in DOMAIN rooms
  /\ rooms[roomCode[c]].host = c
  => LET r == roomCode[c]
         action == last'.arg.action
         state == rooms'[r].videoState
     IN /\ DOMAIN state = DOMAIN action \cup {"lastUpdate"}
        /\ \A f \in DOMAIN action : state[f] = action[f]
        /\ state.lastUpdate = last'.arg.now
        /\ Len(out') = 1
        /\ out'[1].name = "videoAction"
        /\ out'[1].payload = action
        /\ c \notin out'[1].to
        /\ \A m \in MemberIds(rooms[r]) \ {c} : status[m] = "open" => m \in out'[1].to

\* C8: a videoAction from the host of the room it is bound to makes the room's
\* videoState the fields of the action plus lastUpdate = the time of handling,
\* and nothing else of the old videoState; the videoAction event, carrying the
\* action, goes to every other member of the room whose connection is open and
\* not to the host.
C8_HostVideoAction == [][\A c \in Conns : C8_HostStep(c)]_vars

\* The host has sent a videoAction without currentTime: another member got
\* it and the stored videoState has no currentTime any more.
C8_Witness ==
  /\ last.op = "videoAction"
  /\ Len(out) = 1
  /\ out[1].to # {}
  /\ out[1].to \subseteq MemberIds(rooms[roomCode[last.conn]])
  /\ "currentTime" \notin DOMAIN last.arg.action
  /\ "currentTime" \notin DOMAIN rooms[roomCode[last.conn]].videoState

Min(a, b) == IF a < b THEN a ELSE b

\* t is the last Len(t) entries of s, in the same order.
IsSuffix(t, s) ==
  /\ Len(t) <= Len(s)
  /\ \A j \in 1..Len(t) : t[j] = s[Len(s) - Len(t) + j]

\* C9: every room's chat has at most 100 entries; the chat of a roomJoined
\* snapshot has at most 50 entries and is the last min(50, length) entries of
\* the room's chat at the join, in the same order.
C9_ChatBounds ==
  /\ \A r \in DOMAIN rooms : Len(rooms[r].chat) <= ChatLimit
  /\ \A i \in Emitted("roomJoined") :
       LET snapshot == out[i].payload.chat
           chat == rooms[out[i].payload.roomCode].chat
       IN /\ Len(snapshot) <= SnapshotSize
          /\ Len(snapshot) = Min(SnapshotSize, Len(chat))
          /\ IsSuffix(snapshot, chat)

\* A connection has joined a room whose chat is at the limit and got the last
\* 50 messages.
C9_Witness ==
  \E i \in Emitted("roomJoined") :
    /\ Len(out[i].payload.chat) = SnapshotSize
    /\ Len(rooms[out[i].payload.roomCode].chat) = ChatLimit
    /\ nextId > 1

\* C10: a room's chat is the most recent min(n, 100) of the n messages
\* accepted in the room, in the order they were posted and unaltered.
C10_RecentMessages ==
  \A r \in DOMAIN rooms :
    /\ Len(rooms[r].chat) = Min(Len(accepted[r]), ChatLimit)
    /\ IsSuffix(rooms[r].chat, accepted[r])

\* More than 100 messages were accepted in a room and the oldest are gone.
C10_Witness ==
  \E r \in DOMAIN rooms :
    /\ Len(accepted[r]) = ChatLimit + MaxBurst
    /\ Len(rooms[r].chat) = ChatLimit

\* The nickname under which c is a member of room.
NicknameIn(room, c) == MapGet(room.members, c).nickname

\* The disconnect of c, a member of room r in which another member remains.
C11_LeaveStep(c, r) ==
  /\ last'.op = "disconnect"
  /\ last'.conn = c
  /\ r \in DOMAIN rooms
  /\ c \in MemberIds(rooms[r])
  /\ MemberIds(rooms[r]) \ {c} # {}
  => /\ r \in DOMAIN rooms'
     /\ MemberIds(rooms'[r]) = MemberIds(rooms[r]) \ {c}
     /\ \E i \in 1..Len(out') :
          /\ out'[i].name = "userLeft"
          /\ out'[i].payload.nickname = NicknameIn(rooms[r], c)
          /\ out'[i].payload.members = MapValues(rooms'[r].members)
          /\ \A m \in MemberIds(rooms'[r]) : status'[m] = "open" => m \in out'[i].to
          /\ IF rooms[r].host = c
             THEN \E j \in 1..(i - 1) :
                    /\ out'[j].name = "newHost"
                    /\ \A m \in MemberIds(rooms'[r]) :
                         status'[m] = "open" => m \in out'[j].to
             ELSE /\ \A j \in 1..Len(out') : out'[j].name # "newHost"
                  /\ rooms'[r].host = rooms[r].host

\* C11: the disconnect of a member of a room in which another member remains
\* broadcasts userLeft, with the nickname of the member that left and the list
\* of the remaining members, to the remaining members; if the member was the
\* host a newHost event is broadcast before it, and if not no newHost event is
\* emitted and the room's host stays.
C11_UserLeft == [][\A c \in Conns, r \in Codes : C11_LeaveStep(c, r)]_vars

\* A joinRoom of c on room r, which is in the registry and is not full.
C12_JoinStep(c, r) ==
  /\ last'.op = "joinRoom"
  /\ last'.conn = c
  /\ last'.arg.roomCode = r
  /\ r \in DOMAIN rooms
  /\ Len(rooms[r].members) < MaxMembers
  => LET nickname == last'.arg.nickname
         members == MapValues(rooms'[r].members)
     IN /\ MemberIds(rooms'[r]) = MemberIds(rooms[r]) \cup {c}
        /\ MapGet(rooms'[r].members, c) = [nickname |-> nickname, isHost |-> FALSE]
        /\ \A m \in MemberIds(rooms[r]) \ {c} :
             MapGet(rooms'[r].members, m) = MapGet(rooms[r].members, m)
        /\ Len(out') = 2
        /\ out'[1].name = "userJoined"
        /\ out'[1].payload = [nickname |-> nickname, members |-> members]
        /\ c \in out'[1].to
        /\ \A m \in MemberIds(rooms'[r]) : status'[m] = "open" => m \in out'[1].to
        /\ out'[2].name = "roomJoined"
        /\ out'[2].to = {c}
        /\ out'[2].payload.roomCode = r
        /\ out'[2].payload.isHost = FALSE
        /\ out'[2].payload.currentEpisode = rooms[r].currentEpisode
        /\ out'[2].payload.animeId = rooms[r].animeId
        /\ out'[2].payload.videoState = rooms[r].videoState
        /\ out'[2].payload.members = members
        /\ rooms'[r].host = rooms[r].host
        /\ rooms'[r].videoState = rooms[r].videoState
        /\ rooms'[r].currentEpisode = rooms[r].currentEpisode
        /\ rooms'[r].animeId = rooms[r].animeId
        /\ rooms'[r].chat = rooms[r].chat

\* C12: a joinRoom on a room that is in the registry and is not full makes the
\* joiner a member with isHost false, broadcasts userJoined, with a member list
\* that holds the joiner, to every member of the room whose connection is open,
\* the joiner included, and sends roomJoined to the joiner only, with isHost
\* false, the room's episode, anime id and videoState and the whole member
\* list; the room's host, videoState, episode, anime id and chat stay.
C12_JoinEffects == [][\A c \in Conns, r \in Codes : C12_JoinStep(c, r)]_vars

\* A connection has joined the room of another one, in which an episode was
\* chosen and a video action was taken before: both got userJoined.
C12_Witness ==
  /\ last.op = "joinRoom"
  /\ Len(out) = 2
  /\ out[1].to = MemberIds(rooms[last.arg.roomCode])
  /\ Cardinality(out[1].to) = 2
  /\ out[2].payload.currentEpisode # Null
  /\ out[2].payload.videoState.lastUpdate > 0
  /\ Len(out[2].payload.members) = 2

\* A changeEpisode of c.
C13_Step(c) ==
  /\ last'.op = "changeEpisode"
  /\ last'.conn = c
  => /\ roomCode' = roomCode
     /\ topics' = topics
     /\ IF roomCode[c] \in DOMAIN rooms /\ rooms[roomCode[c]].host = c
        THEN LET r == roomCode[c]
             IN /\ rooms' = [rooms EXCEPT ![r].currentEpisode = last'.arg.episodeId,
                                          ![r].animeId = last'.arg.animeId]
                /\ Len(out') = 1
                /\ out'[1].name = "changeEpisode"
                /\ out'[1].payload = last'.arg
                /\ c \in out'[1].to
                /\ \A m \in MemberIds(rooms[r]) : status[m] = "open" => m \in out'[1].to
        ELSE /\ out' = <<>>
             /\ rooms' = rooms

\* C13: a changeEpisode from a connection that is not the host of the room it
\* is bound to changes nothing and emits nothing; one from the host sets the
\* room's currentEpisode and animeId to the given values and changes nothing
\* else, and the changeEpisode event goes to every member of the room whose
\* connection is open, the host included.
C13_ChangeEpisode == [][\A c \in Conns : C13_Step(c)]_vars

\* The host of a room of two has changed the episode: both members got the
\* event and the room has the new episode.
C13_Witness ==
  /\ last.op = "changeEpisode"
  /\ Len(out) = 1
  /\ last.conn \in out[1].to
  /\ Cardinality(out[1].to) = 2
  /\ out[1].to = MemberIds(rooms[roomCode[last.conn]])
  /\ rooms[roomCode[last.conn]].currentEpisode = last.arg.episodeId

\* A chatMessage of c.
C14_Step(c) ==
  /\ last'.op = "chatMessage"
  /\ last'.conn = c
  => /\ roomCode' = roomCode
     /\ topics' = topics
     /\ IF roomCode[c] \in DOMAIN rooms /\ c \in MemberIds(rooms[roomCode[c]])
        THEN LET r == roomCode[c]
                 chat == rooms'[r].chat
                 posted == chat[Len(chat)]
             IN /\ Len(chat) >= 1
                /\ posted.message = last'.arg
                /\ posted.nickname = NicknameIn(rooms[r], c)
                /\ posted.isHost = MapGet(rooms[r].members, c).isHost
                /\ IsSuffix(chat, Append(rooms[r].chat, posted))
                /\ Len(chat) = Min(Len(rooms[r].chat) + 1, ChatLimit)
                /\ rooms' = [rooms EXCEPT ![r].chat = chat]
                /\ Len(out') = 1
                /\ out'[1].name = "chatMessage"
                /\ out'[1].payload = posted
                /\ c \in out'[1].to
                /\ \A m \in MemberIds(rooms[r]) : status[m] = "open" => m \in out'[1].to
        ELSE /\ out' = <<>>
             /\ rooms' = rooms

\* C14: a chatMessage from a connection that is not a member of the room it is
\* bound to, or is bound to no room, appends nothing and emits nothing; one
\* from a member, host or not, is appended to the chat of that room and the
\* chatMessage event, carrying the appended message, goes to every member of
\* the room whose connection is open, the sender included.
C14_ChatGate == [][\A c \in Conns : C14_Step(c)]_vars

\* A member that is not the host has posted a message in a room of two: both
\* members got it.
C14_Witness ==
  /\ last.op = "chatMessage"
  /\ Len(out) = 1
  /\ rooms[roomCode[last.conn]].host # last.conn
  /\ out[1].payload.isHost = FALSE
  /\ last.conn \in out[1].to
  /\ Cardinality(out[1].to) = 2
  /\ Len(rooms[roomCode[last.conn]].chat) = ChatLimit

\* C15: a createRoom handled while every code generateRoomCode can draw is the
\* code of a room of the registry sends the error CapacityExhausted to the
\* requester and leaves the registry and every room as they were.
C15_CapacityExhausted ==
  [][last'.op = "createRoom" /\ DOMAIN rooms = Codes
       => /\ out' = ErrorTo(last'.conn, "CapacityExhausted")
          /\ rooms' = rooms]_vars

\* A joinRoom or a getRoomInfo of c.
C16_Step(c) ==
  /\ last'.op \in {"joinRoom", "getRoomInfo"}
  /\ last'.conn = c
  => LET code == IF last'.op = "joinRoom" THEN last'.arg.roomCode ELSE last'.arg
     IN /\ code \notin DOMAIN rooms
           => /\ out' = ErrorTo(c, "Room not found")
              /\ rooms' = rooms
              /\ roomCode' = roomCode
              /\ topics' = topics
        /\ last'.op = "getRoomInfo"
           => /\ rooms' = rooms
              /\ roomCode' = roomCode
              /\ topics' = topics
              /\ Len(out') = 1
              /\ out'[1].to = {c}

\* C16: a joinRoom or a getRoomInfo that names a code which is not in the
\* registry sends the error 'Room not found' to the requester and to nobody
\* else and leaves the registry, every room and every binding and subscription
\* as they were; a getRoomInfo on a room of the registry changes no state
\* either and answers the requester only.
C16_RoomNotFound == [][\A c \in Conns : C16_Step(c)]_vars

\* A member of a room has asked to join a code that is not in the registry
\* while another connection is open: it got the error and is still bound to
\* its room.
C16_Witness ==
  /\ last.op = "joinRoom"
  /\ last.arg.roomCode \notin DOMAIN rooms
  /\ out = ErrorTo(last.conn, "Room not found")
  /\ roomCode[last.conn] \in DOMAIN rooms
  /\ last.conn \in MemberIds(rooms[roomCode[last.conn]])
  /\ \E c \in Conns \ {last.conn} : status[c] = "open"

\* C17: a connection that has disconnected is a member of no room and the
\* host of no room; once no connection is open, the registry has no room.
C17_GoneAfterDisconnect ==
  /\ \A c \in Conns :
       status[c] = "closed" =>
         /\ RoomsOf(c) = {}
         /\ \A r \in DOMAIN rooms : rooms[r].host # c
  /\ (\A c \in Conns : status[c] # "open") => DOMAIN rooms = {}

\* The positions, in the insertion order of room's members, of the members
\* other than c.
Others(room, c) == {i \in 1..Len(room.members) : room.members[i].id # c}

\* The disconnect of c, the host of the room r it is bound to, in which
\* another member remains.
C18_SuccessorStep(c, r) ==
  /\ last'.op = "disconnect"
  /\ last'.conn = c
  /\ last'.arg = r
  /\ r \in DOMAIN rooms
  /\ rooms[r].host = c
  /\ Others(rooms[r], c) # {}
  => \E i \in Others(rooms[r], c) :
       /\ \A j \in Others(rooms[r], c) : i <= j
       /\ r \in DOMAIN rooms'
       /\ rooms'[r].host = rooms[r].members[i].id
       /\ \E k \in 1..Len(out') :
            /\ out'[k].name = "newHost"
            /\ out'[k].payload.newHostId = rooms[r].members[i].id
       /\ \A k, l \in 1..Len(rooms'[r].members) :
            k < l => \E m, n \in Others(rooms[r], c) :
                       /\ m < n
                       /\ rooms[r].members[m].id = rooms'[r].members[k].id
                       /\ rooms[r].members[n].id = rooms'[r].members[l].id

\* C18: on a host failover the new host is the remaining member that is first
\* in the insertion order of the room's members, whatever the ids are, and the
\* remaining members keep their order; the successor is a function of the
\* members map before the disconnect.
C18_FirstInserted == [][\A c \in Conns, r \in Codes : C18_SuccessorStep(c, r)]_vars

\* A host has left a room in which two members remain: the one that entered
\* first is the new host, and it is not the one with the lowest id.
C18_Witness ==
  /\ last.op = "disconnect"
  /\ Emitted("newHost") # {}
  /\ last.arg \in DOMAIN rooms
  /\ Len(rooms[last.arg].members) = 2
  /\ rooms[last.arg].host = rooms[last.arg].members[1].id
  /\ rooms[last.arg].members[2].id < rooms[last.arg].members[1].id

\* The room an event emitted by the handler that ran last is about.
EventRoom ==
  IF last.op = "joinRoom" THEN last.arg.roomCode
  ELSE IF last.op = "disconnect" THEN last.arg
  ELSE roomCode[last.conn]

Broadcasts == {"userJoined", "videoAction", "changeEpisode", "chatMessage", "newHost", "userLeft"}

\* C19: every userJoined, videoAction, changeEpisode, chatMessage, newHost and
\* userLeft event goes only to connections that are members of the room it is
\* about at that moment.
C19_OnlyToMembers ==
  \A i \in 1..Len(out) :
    out[i].name \in Broadcasts =>
      /\ EventRoom \in DOMAIN rooms
      /\ out[i].to \subseteq MemberIds(rooms[EventRoom])

\* A disconnect of c.
C20_Step(c) ==
  /\ last'.op = "disconnect"
  /\ last'.conn = c
  => /\ \A r \in DOMAIN rooms \cap DOMAIN rooms' :
          c \notin MemberIds(rooms[r]) => rooms'[r].host = rooms[r].host
     /\ out' # <<>> =>
          /\ last'.arg \in DOMAIN rooms
          /\ c \in MemberIds(rooms[last'.arg])
     /\ \A i \in 1..Len(out') :
          out'[i].name = "userLeft" =>
            /\ out'[i].payload.nickname # None
            /\ out'[i].payload.nickname = NicknameIn(rooms[last'.arg], c)

\* C20: a disconnect emits userLeft or newHost for a room, or changes the
\* room's host, only if the connection was a member of that room just before;
\* every userLeft event carries a defined nickname, the one of the member that
\* was removed.
C20_MemberOnly == [][\A c \in Conns : C20_Step(c)]_vars

====
